---- MODULE Spec2Model ----
(***************************************************************************)
(* cli/src/layout.rs: apollo_home() and apollo_home_bin().                 *)
(*                                                                         *)
(* A path is the sequence of characters of a PathBuf (Unix flavour, the    *)
(* separator is "/").  join, components and parent follow std::path, whose *)
(* behaviour the two functions rely on.  The home-directory provider       *)
(* (dirs::home_dir) is the environment: it answers None or Some(path).     *)
(* Every call is a thread walking through the source lines 14, 15, 19, 20. *)
(***************************************************************************)
EXTENDS Naturals, Sequences, FiniteSets, TLC

\* ------------------------------------------------------------------ bounds
\* Longest home directory (in characters) the provider answers in Spec.
MaxHomeLen == 3
\* Number of home directories the environment changes between in SpecEnv.
NumEnvHomes == 3
\* Number of threads calling concurrently in Spec.
NumThreads == 2

\* ------------------------------------------------------------------ paths
Sep == "/"
Alphabet == {Sep, ".", "a"}

\* The literal ".apollo" of line 15 and the literal "bin" of line 20.
DotApollo == <<".", "a", "p", "o", "l", "l", "o">>
Bin == <<"b", "i", "n">>

RECURSIVE PathsOfLen(_)
PathsOfLen(n) ==
    IF n = 0 THEN {<<>>}
    ELSE {Append(p, c) : p \in PathsOfLen(n - 1), c \in Alphabet}

PathsUpTo(n) == UNION {PathsOfLen(k) : k \in 0..n}

\* Option<PathBuf>, the provider's answer.
None == [some |-> FALSE]
Some(p) == [some |-> TRUE, path |-> p]

Answers(n) == {None} \cup {Some(p) : p \in PathsUpTo(n)}

\* The home directories the environment is switched between: absolute ones,
\* one inside the other, a relative one, the root, the empty path.
EnvHomeList ==
    << <<Sep, "a">>, <<Sep, "a", Sep, "a">>, <<"a">>, <<Sep>>, <<>> >>
EnvHomes ==
    {EnvHomeList[i] : i \in {j \in 1..Len(EnvHomeList) : j <= NumEnvHomes}}
EnvAnswers == {None} \cup {Some(p) : p \in EnvHomes}

\* Fallible<PathBuf> = Result<PathBuf, ErrorDetails>.
NoHomeEnvironmentVar == "NoHomeEnvironmentVar"
Ok(p) == [ok |-> TRUE, path |-> p]
Err(e) == [ok |-> FALSE, err |-> e]

\* A slot that holds no value (no call made, or the value has been moved out).
Unset == [unset |-> TRUE]
IsSet(r) == r # Unset
IsOk(r) == IsSet(r) /\ r.ok
IsErr(r) == IsSet(r) /\ ~r.ok

\* Path::has_root / Path::is_absolute on Unix.
has_root(p) == Len(p) > 0 /\ p[1] = Sep
is_absolute(p) == has_root(p)

\* PathBuf::push: an absolute argument replaces the path; otherwise a
\* separator is added unless the path is empty or already ends with one.
push(p, q) ==
    LET need_sep == Len(p) > 0 /\ p[Len(p)] # Sep
    IN  IF is_absolute(q) THEN q
        ELSE IF need_sep THEN p \o <<Sep>> \o q
        ELSE p \o q

\* The pieces of a path between separators (empty pieces included).
RECURSIVE Split(_)
Split(p) ==
    IF p = <<>> THEN << <<>> >>
    ELSE LET r == Split(SubSeq(p, 1, Len(p) - 1))
             c == p[Len(p)]
         IN  IF c = Sep THEN Append(r, <<>>)
             ELSE [r EXCEPT ![Len(r)] = Append(@, c)]

\* std::path::Component.
RootDir == [kind |-> "RootDir", name |-> <<>>]
CurDir == [kind |-> "CurDir", name |-> <<>>]
ParentDir == [kind |-> "ParentDir", name |-> <<>>]
Normal(s) == [kind |-> "Normal", name |-> s]

\* Components::include_cur_dir: a leading "." of a rootless path is kept.
include_cur_dir(p) ==
    /\ ~has_root(p)
    /\ Len(p) > 0
    /\ p[1] = "."
    /\ (Len(p) = 1 \/ p[2] = Sep)

\* Components::parse_single_component: "" and "." are no component.
IsComponent(piece) == piece # <<>> /\ piece # <<".">>
parse_single_component(piece) ==
    IF piece = <<".", ".">> THEN ParentDir ELSE Normal(piece)

RECURSIVE BodyComponents(_)
BodyComponents(pieces) ==
    IF pieces = <<>> THEN <<>>
    ELSE LET rest == BodyComponents(Tail(pieces))
         IN  IF IsComponent(Head(pieces))
             THEN <<parse_single_component(Head(pieces))>> \o rest
             ELSE rest

\* Path::components.
components(p) ==
    LET start == IF has_root(p) THEN <<RootDir>>
                 ELSE IF include_cur_dir(p) THEN <<CurDir>>
                 ELSE <<>>
    IN  start \o BodyComponents(Split(p))

\* PartialEq for Path: two paths are equal when their components are.
PathEq(p, q) == components(p) = components(q)

\* Components::len_before_body.
len_before_body(p) ==
    (IF has_root(p) THEN 1 ELSE 0) + (IF include_cur_dir(p) THEN 1 ELSE 0)

\* Components::parse_next_component_back: the last piece of the body and the
\* number of characters it takes with the separator before it.
LastSep(p) ==
    LET S == {i \in (len_before_body(p) + 1)..Len(p) : p[i] = Sep}
    IN  IF S = {} THEN 0 ELSE CHOOSE i \in S : \A j \in S : j <= i
BackPiece(p) ==
    IF LastSep(p) = 0 THEN SubSeq(p, len_before_body(p) + 1, Len(p))
    ELSE SubSeq(p, LastSep(p) + 1, Len(p))
BackSize(p) == Len(BackPiece(p)) + (IF LastSep(p) = 0 THEN 0 ELSE 1)

\* Components::trim_right: drop trailing pieces that are no component.
RECURSIVE trim_right(_)
trim_right(p) ==
    IF Len(p) > len_before_body(p) /\ ~IsComponent(BackPiece(p))
    THEN trim_right(SubSeq(p, 1, Len(p) - BackSize(p)))
    ELSE p

\* Components::next_back followed by as_path: Some(what is left) when the last
\* component is Normal, CurDir or ParentDir, None when it is the root or the
\* path has no component.
RECURSIVE next_back(_)
next_back(p) ==
    IF Len(p) > len_before_body(p)
    THEN LET rest == SubSeq(p, 1, Len(p) - BackSize(p))
         IN  IF IsComponent(BackPiece(p)) THEN Some(trim_right(rest))
             ELSE next_back(rest)
    ELSE IF has_root(p) THEN None
    ELSE IF include_cur_dir(p) THEN Some(<<>>)
    ELSE None

\* Path::parent.
parent(p) == next_back(p)

\* Path::join: push on a copy.
join_concat(p, q) == p \o q
join_prefix(p, q) == q \o <<Sep>> \o p
join_sibling(p, q) == LET r == next_back(p) IN push(IF r.some THEN r.path ELSE p, q)
join(p, q) == push(p, q)

\* Option::ok_or.
ok_or_default(opt, e) == IF opt.some THEN Ok(opt.path) ELSE Ok(<<>>)
ok_or(opt, e) == IF opt.some THEN Ok(opt.path) ELSE Err(e)

\* The two functions run start to finish on a provider answer a.
apollo_home(a) ==
    LET r == ok_or(a, NoHomeEnvironmentVar)
    IN  IF IsOk(r) THEN Ok(join(r.path, DotApollo)) ELSE r

apollo_home_bin(a) ==
    LET r == apollo_home(a)
    IN  IF IsOk(r) THEN Ok(join(r.path, Bin)) ELSE r

\* ------------------------------------------------------------------ state
Threads == 1..NumThreads
MainThread == CHOOSE t \in Threads : \A u \in Threads : t <= u
Ops == {"apollo_home", "apollo_home_bin"}

VARIABLES
    homeEnv,   \* the provider's current answer (the process environment)
    fs,        \* the directories that exist on the filesystem
    pc,        \* per thread: "idle", "L14", "L15", "L19", "L20", "done"
    op,        \* per thread: the function the caller invoked
    home,      \* per thread: the local `home` of the running function
    ret,       \* per thread: apollo_home's return value on its way to line 19
    result,    \* per thread: the value returned to the caller
    seen,      \* per thread: the provider's answer the current call received
    prev       \* per function: the value its last finished call returned

vars == <<homeEnv, fs, pc, op, home, ret, result, seen, prev>>

\* dirs::home_dir(): reads the environment.
home_dir == homeEnv

\* The layout of the comment at lines 5-11, for a provider answer a.
Layout(a) ==
    IF a.some
    THEN {join(a.path, DotApollo), join(join(a.path, DotApollo), Bin)}
    ELSE {}

InitThreads ==
    /\ pc = [t \in Threads |-> "idle"]
    /\ op = [t \in Threads |-> "none"]
    /\ home = [t \in Threads |-> <<>>]
    /\ ret = [t \in Threads |-> Unset]
    /\ result = [t \in Threads |-> Unset]
    /\ seen = [t \in Threads |-> Unset]
    /\ prev = [o \in Ops |-> Unset]

\* The environment is fixed for the process lifetime; the layout may or may
\* not have been installed.
Init ==
    /\ homeEnv \in Answers(MaxHomeLen)
    /\ fs \in {{}, Layout(homeEnv)}
    /\ InitThreads

InitEnv ==
    /\ homeEnv \in EnvAnswers
    /\ fs \in {{}, Layout(homeEnv)}
    /\ InitThreads

\* A caller invokes o; both functions start at line 14 (apollo_home_bin
\* calls apollo_home first).
Call(t, o) ==
    /\ pc[t] = "idle"
    /\ pc' = [pc EXCEPT ![t] = "L14"]
    /\ op' = [op EXCEPT ![t] = o]
    /\ UNCHANGED <<homeEnv, fs, home, ret, result, seen, prev>>

\* apollo_home returns v: to the caller, or to line 19 of apollo_home_bin.
ReturnHome(t, v) ==
    IF op[t] = "apollo_home"
    THEN /\ pc' = [pc EXCEPT ![t] = "done"]
         /\ result' = [result EXCEPT ![t] = v]
         /\ ret' = ret
    ELSE /\ pc' = [pc EXCEPT ![t] = "L19"]
         /\ ret' = [ret EXCEPT ![t] = v]
         /\ result' = result

\* A memoised apollo_home: the last returned value is handed out again.
Line14Cached(t) ==
    /\ pc[t] = "L14"
    /\ seen' = [seen EXCEPT ![t] = home_dir]
    /\ LET r == ok_or(home_dir, NoHomeEnvironmentVar)
       IN  IF IsSet(prev["apollo_home"])
           THEN /\ home' = home
                /\ ReturnHome(t, prev["apollo_home"])
           ELSE IF IsOk(r)
           THEN /\ home' = [home EXCEPT ![t] = r.path]
                /\ pc' = [pc EXCEPT ![t] = "L15"]
                /\ UNCHANGED <<ret, result>>
           ELSE /\ home' = home
                /\ ReturnHome(t, r)
    /\ UNCHANGED <<homeEnv, fs, op, prev>>

\* let home = dirs::home_dir().ok_or(ErrorDetails::NoHomeEnvironmentVar)?;
Line14(t) ==
    /\ pc[t] = "L14"
    /\ seen' = [seen EXCEPT ![t] = home_dir]
    /\ LET r == ok_or(home_dir, NoHomeEnvironmentVar)
       IN  IF IsOk(r)
           THEN /\ home' = [home EXCEPT ![t] = r.path]
                /\ pc' = [pc EXCEPT ![t] = "L15"]
                /\ UNCHANGED <<ret, result>>
           ELSE /\ home' = home
                /\ ReturnHome(t, r)
    /\ UNCHANGED <<homeEnv, fs, op, prev>>

\* The segment is pushed onto one buffer kept across calls.
Line15Static(t) ==
    /\ pc[t] = "L15"
    /\ home' = [home EXCEPT ![t] = <<>>]
    /\ ReturnHome(t, Ok(join(IF IsOk(prev["apollo_home"])
                             THEN prev["apollo_home"].path
                             ELSE home[t], DotApollo)))
    /\ UNCHANGED <<homeEnv, fs, op, seen, prev>>

\* The directory is created on the way (create_dir_all).
Line15Mkdir(t) ==
    /\ pc[t] = "L15"
    /\ home' = [home EXCEPT ![t] = <<>>]
    /\ ReturnHome(t, Ok(join(home[t], DotApollo)))
    /\ fs' = fs \cup {join(home[t], DotApollo)}
    /\ UNCHANGED <<homeEnv, op, seen, prev>>

\* Ok(home.join(".apollo"))
Line15(t) ==
    /\ pc[t] = "L15"
    /\ home' = [home EXCEPT ![t] = <<>>]
    /\ ReturnHome(t, Ok(join(home[t], DotApollo)))
    /\ UNCHANGED <<homeEnv, fs, op, seen, prev>>

\* The local lives in storage shared by all threads.
Line19Shared(t) ==
    /\ pc[t] = "L19"
    /\ IF IsOk(ret[t])
       THEN /\ home' = [u \in Threads |-> ret[t].path]
            /\ pc' = [pc EXCEPT ![t] = "L20"]
            /\ result' = result
       ELSE /\ result' = [result EXCEPT ![t] = ret[t]]
            /\ pc' = [pc EXCEPT ![t] = "done"]
            /\ home' = home
    /\ ret' = [ret EXCEPT ![t] = Unset]
    /\ UNCHANGED <<homeEnv, fs, op, seen, prev>>

\* The failure is recovered locally (unwrap_or_default) instead of forwarded.
Line19Recover(t) ==
    /\ pc[t] = "L19"
    /\ home' = [home EXCEPT ![t] = IF IsOk(ret[t]) THEN ret[t].path ELSE <<>>]
    /\ pc' = [pc EXCEPT ![t] = "L20"]
    /\ ret' = [ret EXCEPT ![t] = Unset]
    /\ UNCHANGED <<homeEnv, fs, op, result, seen, prev>>

\* let home = apollo_home()?;
Line19(t) ==
    /\ pc[t] = "L19"
    /\ IF IsOk(ret[t])
       THEN /\ home' = [home EXCEPT ![t] = ret[t].path]
            /\ pc' = [pc EXCEPT ![t] = "L20"]
            /\ result' = result
       ELSE /\ result' = [result EXCEPT ![t] = ret[t]]
            /\ pc' = [pc EXCEPT ![t] = "done"]
            /\ home' = home
    /\ ret' = [ret EXCEPT ![t] = Unset]
    /\ UNCHANGED <<homeEnv, fs, op, seen, prev>>

\* The last segment is replaced (set_file_name) instead of one being added.
Line20SetFileName(t) ==
    /\ pc[t] = "L20"
    /\ result' = [result EXCEPT ![t] =
                     Ok(join(IF parent(home[t]).some
                             THEN parent(home[t]).path
                             ELSE home[t], Bin))]
    /\ home' = [home EXCEPT ![t] = <<>>]
    /\ pc' = [pc EXCEPT ![t] = "done"]
    /\ UNCHANGED <<homeEnv, fs, op, ret, seen, prev>>

\* Ok(home.join("bin"))
Line20(t) ==
    /\ pc[t] = "L20"
    /\ result' = [result EXCEPT ![t] = Ok(join(home[t], Bin))]
    /\ home' = [home EXCEPT ![t] = <<>>]
    /\ pc' = [pc EXCEPT ![t] = "done"]
    /\ UNCHANGED <<homeEnv, fs, op, ret, seen, prev>>

\* The caller takes the returned value; the thread may call again.
Finish(t) ==
    /\ pc[t] = "done"
    /\ prev' = [prev EXCEPT ![op[t]] = result[t]]
    /\ pc' = [pc EXCEPT ![t] = "idle"]
    /\ op' = [op EXCEPT ![t] = "none"]
    /\ result' = [result EXCEPT ![t] = Unset]
    /\ seen' = [seen EXCEPT ![t] = Unset]
    /\ UNCHANGED <<homeEnv, fs, home, ret>>

\* The environment changes under the process (HOME is set or unset).
SetHome(a) ==
    /\ a # homeEnv
    /\ homeEnv' = a
    /\ UNCHANGED <<fs, pc, op, home, ret, result, seen, prev>>

Step(t) ==
    \/ \E o \in Ops : Call(t, o)
    \/ Line14(t)
    \/ Line15(t)
    \/ Line19(t)
    \/ Line20(t)
    \/ Finish(t)

\* Threads call concurrently under a fixed environment.
Next == \E t \in Threads : Step(t)

Spec == Init /\ [][Next]_vars

\* One caller calls again and again while the environment changes.
NextEnv ==
    \/ Step(MainThread)
    \/ \E a \in EnvAnswers : SetHome(a)

SpecEnv == InitEnv /\ [][NextEnv]_vars

\* One caller calls again and again under a fixed environment.
NextSeq == Step(MainThread)

SpecSeq == Init /\ [][NextSeq]_vars

\* ------------------------------------------------------------------ claims
Done(t) == pc[t] = "done"
DoneWith(t, o) == Done(t) /\ op[t] = o

\* C1: whenever the provider supplies a home directory H, a finished call of
\* apollo_home has succeeded and its path is H followed by the one segment
\* ".apollo": the components of H, then Normal(".apollo"), nothing else.
C1_HomeIsHomeDotApollo ==
    \A t \in Threads :
        (DoneWith(t, "apollo_home") /\ homeEnv.some) =>
            /\ IsOk(result[t])
            /\ components(result[t].path)
                   = Append(components(homeEnv.path), Normal(DotApollo))

\* C1 witness: apollo_home has returned for a home directory of several
\* components that ends in a separator.
C1_Witness ==
    \E t \in Threads :
        /\ DoneWith(t, "apollo_home")
        /\ homeEnv.some
        /\ Len(components(homeEnv.path)) >= 2
        /\ homeEnv.path[Len(homeEnv.path)] = Sep
        /\ IsOk(result[t])

\* C2: whenever the provider supplies a home directory H, a finished call of
\* apollo_home_bin has succeeded and its path is H followed by the two
\* segments ".apollo" and "bin", in that order.
C2_BinIsHomeDotApolloBin ==
    \A t \in Threads :
        (DoneWith(t, "apollo_home_bin") /\ homeEnv.some) =>
            /\ IsOk(result[t])
            /\ components(result[t].path)
                   = components(homeEnv.path)
                         \o <<Normal(DotApollo), Normal(Bin)>>

\* C2 witness: apollo_home_bin has returned for a two-component home.
C2_Witness ==
    \E t \in Threads :
        /\ DoneWith(t, "apollo_home_bin")
        /\ homeEnv.some
        /\ Len(components(homeEnv.path)) >= 2
        /\ IsOk(result[t])

\* C3: when the provider yields no home directory, a finished call of either
\* function has failed with NoHomeEnvironmentVar and carries no path.
C3_NoHomeFails ==
    \A t \in Threads :
        (Done(t) /\ ~homeEnv.some) =>
            /\ result[t] = Err(NoHomeEnvironmentVar)
            /\ "path" \notin DOMAIN result[t]

\* C3 witness: both functions have failed side by side without a home.
C3_Witness ==
    /\ ~homeEnv.some
    /\ \E t, u \in Threads :
           /\ DoneWith(t, "apollo_home") /\ IsErr(result[t])
           /\ DoneWith(u, "apollo_home_bin") /\ IsErr(result[u])

\* C4: under an unchanged environment every finished call returns what the
\* last finished call of the same function returned (equal paths, or the same
\* error), and what any other finished call of that function holds.
C4_Idempotent ==
    \A t \in Threads :
        Done(t) =>
            /\ IsSet(prev[op[t]]) =>
                   /\ IsOk(result[t]) = IsOk(prev[op[t]])
                   /\ IsOk(result[t]) =>
                          PathEq(result[t].path, prev[op[t]].path)
                   /\ IsErr(result[t]) => result[t] = prev[op[t]]
            /\ \A u \in Threads :
                   DoneWith(u, op[t]) => result[u] = result[t]

\* C4 witness: a call has finished after earlier calls of both functions.
C4_Witness ==
    \E t \in Threads :
        /\ Done(t)
        /\ IsOk(result[t])
        /\ \A o \in Ops : IsOk(prev[o])

\* C5 as stated: every path a finished call returned is absolute.
C5_AlwaysAbsolute ==
    \A t \in Threads :
        (Done(t) /\ IsOk(result[t])) => is_absolute(result[t].path)

\* C5 as amended: every path a finished call returned is absolute, provided
\* the home directory the provider supplied is absolute.
C5_AbsoluteWhenHomeAbsolute ==
    \A t \in Threads :
        (Done(t) /\ IsOk(result[t]) /\ homeEnv.some
                 /\ is_absolute(homeEnv.path)) =>
            is_absolute(result[t].path)

\* C5 witness: both functions have returned for an absolute home that is not
\* the root alone.
C5_Witness ==
    /\ homeEnv.some
    /\ is_absolute(homeEnv.path)
    /\ Len(components(homeEnv.path)) >= 2
    /\ \E t, u \in Threads :
           /\ DoneWith(t, "apollo_home") /\ IsOk(result[t])
           /\ DoneWith(u, "apollo_home_bin") /\ IsOk(result[u])

\* What a call of o returns when it runs alone on the answer a.
Alone(o, a) ==
    IF o = "apollo_home" THEN apollo_home(a) ELSE apollo_home_bin(a)

\* C6: in every interleaving under a fixed environment, a step of one call
\* leaves every other call's local path, pending return value, result and
\* position untouched, and a call that finishes returns what it would have
\* returned alone.
C6_ConcurrentCallsIndependent ==
    [][\A t \in Threads :
           pc'[t] # pc[t] =>
               /\ \A u \in Threads \ {t} :
                      /\ home'[u] = home[u]
                      /\ ret'[u] = ret[u]
                      /\ result'[u] = result[u]
                      /\ pc'[u] = pc[u]
               /\ pc'[t] = "done" => result'[t] = Alone(op[t], homeEnv)]_vars

\* C6 witness: one call has finished while a call of the other function,
\* started before it finished, still holds its intermediate path.
C6_Witness ==
    \E t, u \in Threads :
        /\ t # u
        /\ Done(t) /\ IsOk(result[t])
        /\ pc[u] \in {"L15", "L20"}
        /\ op[u] # op[t]

\* C7: for one and the same provider answer, apollo_home_bin fails exactly
\* when apollo_home fails, with the identical error value, and when
\* apollo_home succeeds with P apollo_home_bin succeeds with P followed by
\* the segment "bin".
C7_BinForwardsHome ==
    \A t, u \in Threads :
        (DoneWith(t, "apollo_home_bin") /\ DoneWith(u, "apollo_home")) =>
            /\ IsErr(result[t]) <=> IsErr(result[u])
            /\ IsErr(result[u]) => result[t] = result[u]
            /\ IsOk(result[u]) =>
                   /\ IsOk(result[t])
                   /\ components(result[t].path)
                          = Append(components(result[u].path), Normal(Bin))

\* C7 witness: apollo_home has failed and apollo_home_bin, called on the
\* same answer, has returned too.
C7_Witness ==
    \E t, u \in Threads :
        /\ DoneWith(t, "apollo_home_bin")
        /\ DoneWith(u, "apollo_home")
        /\ IsErr(result[u])

\* C8: a step of a call, successful or failing, changes neither the
\* provider's answer nor the filesystem, and a call made with a home
\* directory succeeds whether or not the directory it names exists.
C8_NoSideEffect ==
    [][\A t \in Threads :
           pc'[t] # pc[t] =>
               /\ homeEnv' = homeEnv
               /\ fs' = fs
               /\ (pc'[t] = "done" /\ seen'[t].some) => IsOk(result'[t])]_vars

\* C8 witness: a call has returned a path that does not exist on the
\* filesystem, and the filesystem is still empty.
C8_Witness ==
    \E t \in Threads :
        /\ Done(t)
        /\ IsOk(result[t])
        /\ result[t].path \notin fs
        /\ fs = {}

\* The segments o appends to the home directory.
Segments(o) ==
    IF o = "apollo_home" THEN <<Normal(DotApollo)>>
    ELSE <<Normal(DotApollo), Normal(Bin)>>

\* C9: a finished call's result is built from the answer the provider gave
\* during that call and from nothing earlier: the path of that home
\* directory, or NoHomeEnvironmentVar when there was none, whatever earlier
\* calls returned.
C9_NoCaching ==
    \A t \in Threads :
        Done(t) =>
            IF seen[t].some
            THEN /\ IsOk(result[t])
                 /\ components(result[t].path)
                        = components(seen[t].path) \o Segments(op[t])
            ELSE result[t] = Err(NoHomeEnvironmentVar)

\* C9 witness: apollo_home fails now although its last call succeeded, and
\* the last call of apollo_home_bin had failed before that.
C9_Witness ==
    \E t \in Threads :
        /\ DoneWith(t, "apollo_home")
        /\ IsErr(result[t])
        /\ IsOk(prev["apollo_home"])
        /\ IsErr(prev["apollo_home_bin"])

\* C9 witness of the other direction: apollo_home succeeds with a path other
\* than the one its last call returned.
C9_WitnessChanged ==
    \E t \in Threads :
        /\ DoneWith(t, "apollo_home")
        /\ IsOk(result[t])
        /\ IsOk(prev["apollo_home"])
        /\ ~PathEq(result[t].path, prev["apollo_home"].path)

\* C10: removing the last segment of apollo_home_bin's path gives the path
\* apollo_home returns (and returned, when it was called before), removing the last segment of apollo_home's path gives
\* the home directory H, and no home directory that differs from H (as a
\* path) produces the path this call returned.
C10_RoundTrip ==
    \A t \in Threads :
        (Done(t) /\ IsOk(result[t])) =>
            LET P == parent(result[t].path)
            IN  /\ P.some
                /\ op[t] = "apollo_home" => PathEq(P.path, homeEnv.path)
                /\ op[t] = "apollo_home_bin" =>
                       /\ PathEq(P.path, apollo_home(homeEnv).path)
                       /\ IsOk(prev["apollo_home"]) =>
                              PathEq(P.path, prev["apollo_home"].path)
                       /\ parent(P.path).some
                       /\ PathEq(parent(P.path).path, homeEnv.path)
                /\ \A h \in PathsUpTo(MaxHomeLen) :
                       ~PathEq(h, homeEnv.path) =>
                           ~PathEq(Alone(op[t], Some(h)).path, result[t].path)

\* C10 witness: apollo_home_bin has returned after apollo_home, for a home
\* directory that is written with a trailing separator.
C10_Witness ==
    /\ homeEnv.some
    /\ Len(homeEnv.path) >= 2
    /\ homeEnv.path[Len(homeEnv.path)] = Sep
    /\ IsOk(prev["apollo_home"])
    /\ \E t \in Threads :
           DoneWith(t, "apollo_home_bin") /\ IsOk(result[t])

====
